---- MODULE Spec2Model ----
(***************************************************************************)
(* Model of notebooks/utils_censo.py: treatment of the censored values of  *)
(* INEGI census tables (-6 "no aplica", -8 "confidencial").                *)
(*                                                                         *)
(* A table (DataFrame) is a record [cols, n]: cols is the ordered sequence *)
(* of its columns and n its row count.  A column is a record               *)
(* [nombre, tipo, vals]: its name (a string), its dtype class ("num" for   *)
(* the dtypes select_dtypes(include="number") keeps, "txt" for object      *)
(* columns, "bool" for boolean ones) and its n cells.  A numeric cell is   *)
(* an integer holding the value times Escala (so 7.5 is 75); NaN is the    *)
(* cell np.nan; a "txt" cell is the identifier of a text; a "bool" cell is *)
(* 0 (False) or 1 (True).                                                  *)
(***************************************************************************)
EXTENDS Integers, Sequences, FiniteSets, TLC

VARIABLES df, hist

vars == <<df, hist>>

\* ------------------------------------------------------------------ values

\* Fixed-point unit of a numeric cell: one decimal, the precision of round(x, 1).
Escala == 10

\* The cell np.nan: it is equal to no number and fails every comparison (x >= 0).
NaN == -999999

\* The two INEGI codes as cells.
NO_APLICA == (-6) * Escala

CONFIDENCIAL == (-8) * Escala

METODOS_CONF == <<"nan", "cero", "mediana", "media", "valor_bajo">>

\* ------------------------------------------------------------------ tables

\* x in seq
EnSeq(x, s) == \E i \in 1..Len(s) : s[i] = x

\* df.columns
Nombres(t) == [i \in 1..Len(t.cols) |-> t.cols[i].nombre]

\* df[c]
Columna(t, c) == t.cols[CHOOSE i \in 1..Len(t.cols) : t.cols[i].nombre = c]

\* df.select_dtypes(include="number").columns
select_dtypes(t) ==
    LET num == SelectSeq(t.cols, LAMBDA col : col.tipo = "num")
    IN  [i \in 1..Len(num) |-> num[i].nombre]

\* (serie == codigo)[i]: only a number of a numeric column equals a code.
EsIgual(col, i, codigo) == col.tipo = "num" /\ col.vals[i] = codigo

\* (serie == codigo).any()
Contiene(col, codigo) == \E i \in 1..Len(col.vals) : EsIgual(col, i, codigo)

\* (serie == codigo).sum()
Cuenta(col, codigo) == Cardinality({i \in 1..Len(col.vals) : EsIgual(col, i, codigo)})

\* resultado[c] = serie: an existing column is overwritten in place, a new one
\* is appended after the last column.
Asignar(t, c, tipo, vals) ==
    LET nueva == [nombre |-> c, tipo |-> tipo, vals |-> vals]
    IN  IF EnSeq(c, Nombres(t))
        THEN [t EXCEPT !.cols = [i \in 1..Len(t.cols) |->
                  IF t.cols[i].nombre = c THEN nueva ELSE t.cols[i]]]
        ELSE [t EXCEPT !.cols = Append(t.cols, nueva)]

\* cols if cols is not None else cols_num
cols_efectivas(t, cols) == IF cols.dada THEN cols.lista ELSE select_dtypes(t)

\* sum(f(c) for c in s)
RECURSIVE SumaCuentas(_, _, _)
SumaCuentas(t, s, codigo) ==
    IF s = <<>> THEN 0
    ELSE Cuenta(Columna(t, Head(s)), codigo) + SumaCuentas(t, Tail(s), codigo)

\* One printed line of the report.
Linea(fn, columnas, celdas, metodo, valor) ==
    [fn |-> fn, columnas |-> columnas, celdas |-> celdas, metodo |-> metodo,
     valor |-> valor]

\* What a call leaves behind: the caller's table after the call (df), the table
\* returned (retorno: <<>> when the call raised or returns no table), the lines
\* printed, whether it raised, and the summary diagnostico_censurados returns.
Salida(despues, retorno, informe, error, resumen) ==
    [df |-> despues, retorno |-> retorno, informe |-> informe, error |-> error,
     resumen |-> resumen]

\* resultado = df.copy(): the caller's table is detached from the table the
\* function goes on to modify (final), so the caller still holds t.
df_copy(t, final) == t

\* ------------------------------------------------- 2. tratar_no_aplica

\* Mutant of Reemplazar: the rows holding the code are dropped, not replaced.
Reemplazar_elimina(vals, codigo, reemplazo) ==
    SelectSeq(vals, LAMBDA v : v # codigo)

\* Mutant of Reemplazar: only the first cell holding the code is replaced.
Reemplazar_primero(vals, codigo, reemplazo) ==
    [i \in 1..Len(vals) |->
        IF vals[i] = codigo /\ (\A j \in 1..(i - 1) : vals[j] # codigo)
        THEN reemplazo ELSE vals[i]]

\* Mutant of Reemplazar: every negative cell is taken for the code.
Reemplazar_negativos(vals, codigo, reemplazo) ==
    [i \in 1..Len(vals) |-> IF vals[i] < 0 THEN reemplazo ELSE vals[i]]

\* serie.replace(-6, reemplazo)
Reemplazar(vals, codigo, reemplazo) ==
    [i \in 1..Len(vals) |-> IF vals[i] = codigo THEN reemplazo ELSE vals[i]]

RECURSIVE BucleNoAplica(_, _, _)
BucleNoAplica(resultado, cols_con_6, reemplazo) ==
    IF cols_con_6 = <<>> THEN resultado
    ELSE LET c == Head(cols_con_6)
             serie == Columna(resultado, c)
         IN  BucleNoAplica(
                 Asignar(resultado, c, serie.tipo,
                         Reemplazar(serie.vals, NO_APLICA, reemplazo)),
                 Tail(cols_con_6), reemplazo)

tratar_no_aplica(t, cols, reemplazo) ==
    LET resultado == t
        cols_proc == cols_efectivas(resultado, cols)
        cols_con_6 == SelectSeq(cols_proc,
                          LAMBDA c : Contiene(Columna(resultado, c), NO_APLICA))
        final == BucleNoAplica(resultado, cols_con_6, reemplazo)
        n_celdas == SumaCuentas(t, cols_con_6, NO_APLICA)
    IN  Salida(df_copy(t, final), <<final>>,
               <<Linea("tratar_no_aplica", Len(cols_con_6), n_celdas, "", reemplazo)>>,
               FALSE, <<>>)

\* ------------------------------------------------- 3. tratar_confidencial

RECURSIVE Insertar(_, _)
Insertar(x, s) ==
    IF s = <<>> THEN <<x>>
    ELSE IF x <= Head(s) THEN <<x>> \o s
    ELSE <<Head(s)>> \o Insertar(x, Tail(s))

RECURSIVE Ordenar(_)
Ordenar(s) == IF s = <<>> THEN <<>> ELSE Insertar(Head(s), Ordenar(Tail(s)))

RECURSIVE Suma(_)
Suma(s) == IF s = <<>> THEN 0 ELSE Head(s) + Suma(Tail(s))

\* Series.median(): the middle value of the sorted values, or the midpoint of
\* the two middle ones (exact here: the cells a statistic is taken over are
\* whole numbers, so their sum in units of 1/Escala is even).
median(s) ==
    LET o == Ordenar(s)
        k == Len(o)
    IN  IF k % 2 = 1 THEN o[(k + 1) \div 2]
        ELSE (o[k \div 2] + o[k \div 2 + 1]) \div 2

\* round(num / den, 1) in units of 1/Escala, for num >= 0 already in those
\* units: to the nearest, a tie to the even neighbour.
RedondeoCociente(num, den) ==
    LET q == num \div den
        r == num % den
    IN  IF 2 * r < den THEN q
        ELSE IF 2 * r > den THEN q + 1
        ELSE IF q % 2 = 0 THEN q ELSE q + 1

\* round(Series.mean(), 1)
media_redondeada(s) == RedondeoCociente(Suma(s), Len(s))

\* Mutant of valores_validos: the test >= 0 is left out.
valores_validos_con_negativos(serie) ==
    SelectSeq(serie.vals, LAMBDA v : v # CONFIDENCIAL /\ v # NaN)

\* resultado.loc[~mascara & (resultado[c] >= 0), c]
valores_validos(serie) ==
    SelectSeq(serie.vals, LAMBDA v : v # CONFIDENCIAL /\ v # NaN /\ v >= 0)

\* The value written over the -8 cells of one column.
imputacion(serie, metodo, valor_bajo) ==
    CASE metodo = "nan" -> NaN
      [] metodo = "cero" -> 0
      [] metodo = "mediana" ->
            IF Len(valores_validos(serie)) > 0 THEN median(valores_validos(serie))
            ELSE 0
      [] metodo = "media" ->
            IF Len(valores_validos(serie)) > 0
            THEN media_redondeada(valores_validos(serie))
            ELSE 0
      [] metodo = "valor_bajo" -> valor_bajo
      [] OTHER -> CONFIDENCIAL      \* no branch of the if/elif chain: cells keep -8

RECURSIVE BucleConfidencial(_, _, _, _)
BucleConfidencial(resultado, cols_con_8, metodo, valor_bajo) ==
    IF cols_con_8 = <<>> THEN resultado
    ELSE LET c == Head(cols_con_8)
             serie == Columna(resultado, c)
             valor == imputacion(serie, metodo, valor_bajo)
         IN  BucleConfidencial(
                 Asignar(resultado, c, serie.tipo,
                         [i \in 1..Len(serie.vals) |->
                             IF EsIgual(serie, i, CONFIDENCIAL) THEN valor
                             ELSE serie.vals[i]]),
                 Tail(cols_con_8), metodo, valor_bajo)

\* Mutant of metodo_valido: the method is not validated.
metodo_valido_siempre(metodo) == TRUE

\* if metodo not in METODOS_CONF: raise ValueError
metodo_valido(metodo) == EnSeq(metodo, METODOS_CONF)

tratar_confidencial(t, cols, metodo, valor_bajo) ==
    IF ~metodo_valido(metodo) THEN Salida(t, <<>>, <<>>, TRUE, <<>>)
    ELSE
    LET resultado == t
        cols_proc == cols_efectivas(resultado, cols)
        cols_con_8 == SelectSeq(cols_proc,
                          LAMBDA c : Contiene(Columna(resultado, c), CONFIDENCIAL))
        final == BucleConfidencial(resultado, cols_con_8, metodo, valor_bajo)
        n_celdas == SumaCuentas(t, cols_con_8, CONFIDENCIAL)
    IN  Salida(df_copy(t, final), <<final>>,
               <<Linea("tratar_confidencial", Len(cols_con_8), n_celdas, metodo, 0)>>,
               FALSE, <<>>)

\* ------------------------------------------------- 4. tratar_censurados

\* The two rules printed around the stages.
Encabezado == Linea("tratar_censurados", 0, 0, "inicio", 0)

Cierre == Linea("tratar_censurados", 0, 0, "fin", 0)

tratar_censurados(t, cols, metodo_conf, valor_bajo, reemplazo_no_aplica) ==
    LET paso1 == tratar_no_aplica(t, cols, reemplazo_no_aplica)
        paso2 == tratar_confidencial(paso1.retorno[1], cols, metodo_conf, valor_bajo)
    IN  IF paso2.error
        THEN Salida(paso1.df, <<>>, <<Encabezado>> \o paso1.informe \o paso2.informe,
                    TRUE, <<>>)
        ELSE Salida(paso1.df, paso2.retorno,
                    <<Encabezado>> \o paso1.informe \o paso2.informe \o <<Cierre>>,
                    FALSE, <<>>)

\* ------------------------------------------------- 5. marcar_censurados

\* Mutant of Mascara: != in place of ==.
Mascara_negada(serie, codigo) ==
    [i \in 1..Len(serie.vals) |-> IF EsIgual(serie, i, codigo) THEN 0 ELSE 1]

\* resultado[c] == codigo, as a boolean column
Mascara(serie, codigo) ==
    [i \in 1..Len(serie.vals) |-> IF EsIgual(serie, i, codigo) THEN 1 ELSE 0]

\* One pass of the loop body for column c: the table and the flags added.
PasoMarcar(resultado, c, sufijo_6, sufijo_8) ==
    LET tiene_6 == Contiene(Columna(resultado, c), NO_APLICA)
        tiene_8 == Contiene(Columna(resultado, c), CONFIDENCIAL)
        con_6 == IF tiene_6
                 THEN Asignar(resultado, c \o sufijo_6, "bool",
                              Mascara(Columna(resultado, c), NO_APLICA))
                 ELSE resultado
        con_8 == IF tiene_8
                 THEN Asignar(con_6, c \o sufijo_8, "bool",
                              Mascara(Columna(con_6, c), CONFIDENCIAL))
                 ELSE con_6
    IN  [t |-> con_8,
         n |-> (IF tiene_6 THEN 1 ELSE 0) + (IF tiene_8 THEN 1 ELSE 0)]

RECURSIVE BucleMarcar(_, _, _, _, _)
BucleMarcar(resultado, cols_proc, sufijo_6, sufijo_8, n_flags) ==
    IF cols_proc = <<>> THEN [t |-> resultado, n |-> n_flags]
    ELSE LET paso == PasoMarcar(resultado, Head(cols_proc), sufijo_6, sufijo_8)
         IN  BucleMarcar(paso.t, Tail(cols_proc), sufijo_6, sufijo_8,
                         n_flags + paso.n)

marcar_censurados(t, cols, sufijo_6, sufijo_8) ==
    LET resultado == t
        cols_proc == cols_efectivas(resultado, cols)
        fin == BucleMarcar(resultado, cols_proc, sufijo_6, sufijo_8, 0)
    IN  Salida(df_copy(t, fin.t), <<fin.t>>,
               <<Linea("marcar_censurados", fin.n, 0, "", 0)>>, FALSE, <<>>)

\* ------------------------------------------------- 1. diagnostico_censurados

\* (cuenta / n * 100).round(1) in units of 1/Escala; 0 / 0 is NaN.
Porcentaje(cuenta, n) ==
    IF n = 0 THEN NaN ELSE RedondeoCociente(cuenta * 100 * Escala, n)

\* One row of the summary, for numeric column c.
FilaResumen(t, c) ==
    LET n_menos_6 == Cuenta(Columna(t, c), NO_APLICA)
        n_menos_8 == Cuenta(Columna(t, c), CONFIDENCIAL)
        n_especiales == n_menos_6 + n_menos_8
    IN  [col |-> c,
         n_menos_6 |-> n_menos_6, pct_menos_6 |-> Porcentaje(n_menos_6, t.n),
         n_menos_8 |-> n_menos_8, pct_menos_8 |-> Porcentaje(n_menos_8, t.n),
         n_especiales |-> n_especiales,
         pct_especiales |-> Porcentaje(n_especiales, t.n)]

\* Mutant of con_especiales: >= 0 in place of > 0.
con_especiales_o_cero(resumen) ==
    SelectSeq(resumen, LAMBDA fila : fila.n_especiales >= 0)

\* resumen[resumen["n_especiales"] > 0]
con_especiales(resumen) == SelectSeq(resumen, LAMBDA fila : fila.n_especiales > 0)

diagnostico_censurados(t) ==
    LET cols_num == select_dtypes(t)
        resumen == [i \in 1..Len(cols_num) |-> FilaResumen(t, cols_num[i])]
    IN  Salida(t, <<>>, <<>>, FALSE, con_especiales(resumen))

\* ------------------------------------------------------------------ inputs

\* Rows of the tables of Spec, SpecIdem and SpecOrden.
MaxFilas == 2

\* Rows of the one-column tables of SpecEstad.
MaxFilasEstad == 4

\* Cells of a numeric column: the two codes, another negative number, a count.
Valores == {CONFIDENCIAL, NO_APLICA, (-1) * Escala, 5 * Escala}

\* Cells of the numeric column of SpecEstad.
ValoresEstad == {CONFIDENCIAL, NO_APLICA, (-1) * Escala, 0, 1 * Escala, 2 * Escala}

Col(nombre, tipo) == [nombre |-> nombre, tipo |-> tipo]

\* The column layouts: no column, one numeric column, a text column before a
\* numeric one, and two numeric columns of which one bears the name the
\* default -6 flag of the other would get, after it or before it.
Esquemas ==
    { <<>>,
      <<Col("a", "num")>>,
      <<Col("t", "txt"), Col("a", "num")>>,
      <<Col("a", "num"), Col("a_flag_na", "num")>>,
      <<Col("a_flag_na", "num"), Col("a", "num")>> }

\* The tables of n rows over a layout: every filling of the numeric columns
\* from valores; row i of a text column holds text i.
TablasDe(esquema, valores, n) ==
    { [cols |-> [i \in 1..Len(esquema) |->
                    [nombre |-> esquema[i].nombre, tipo |-> esquema[i].tipo,
                     vals |-> IF esquema[i].tipo = "num" THEN f[i]
                              ELSE [j \in 1..n |-> j]]],
       n |-> n] :
      f \in [1..Len(esquema) -> [1..n -> valores]] }

Tablas == UNION { TablasDe(e, Valores, n) : e \in Esquemas, n \in 0..MaxFilas }

TablasEstad ==
    UNION { TablasDe(<<Col("a", "num")>>, ValoresEstad, n) : n \in 0..MaxFilasEstad }

\* cols=None
Ninguna == [dada |-> FALSE, lista |-> <<>>]

Lista(s) == [dada |-> TRUE, lista |-> s]

\* Column selections of a call on t: none, the first column, the last column,
\* the last column then the first.
Selecciones(t) ==
    {Ninguna} \cup
    (IF t.cols = <<>> THEN {Lista(<<>>)}
     ELSE LET prim == t.cols[1].nombre
              ult == t.cols[Len(t.cols)].nombre
          IN  {Lista(<<prim>>), Lista(<<ult>>)} \cup
              (IF prim = ult THEN {} ELSE {Lista(<<ult, prim>>)}))

\* valor_bajo=3.0, the default
VALOR_BAJO_DEFECTO == 3 * Escala

\* (metodo, valor_bajo): the five methods and two strings that are none of
\* them, with the default valor_bajo; valor_bajo with 2.5.
Metodos ==
    { <<m, VALOR_BAJO_DEFECTO>> :
        m \in {"nan", "cero", "mediana", "media", "valor_bajo", "moda", "MEDIA"} }
    \cup { <<"valor_bajo", 25>> }

\* reemplazo: the default 0.0 and the two codes.
Reemplazos == {0, CONFIDENCIAL, NO_APLICA}

SUFIJO_6_DEFECTO == "_flag_na"

SUFIJO_8_DEFECTO == "_flag_conf"

\* (sufijo_6, sufijo_8): the defaults, twice the same suffix, an empty suffix.
Sufijos ==
    { <<SUFIJO_6_DEFECTO, SUFIJO_8_DEFECTO>>, <<"_flag", "_flag">>, <<"", "_c">> }

\* ------------------------------------------------------------------ calls

\* One completed call: the function, its arguments, the table it was given
\* and what it left behind.
Llamada(fn, cols, metodo, valor_bajo, reemplazo, sufijo_6, sufijo_8, entrada, sal) ==
    [fn |-> fn, cols |-> cols, metodo |-> metodo, valor_bajo |-> valor_bajo,
     reemplazo |-> reemplazo, sufijo_6 |-> sufijo_6, sufijo_8 |-> sufijo_8,
     entrada |-> entrada, sal |-> sal]

\* The caller's k+1-th call: it is recorded, and the caller goes on with the
\* table returned (df = f(df, ...)), or with its own table when none is.
Registrar(k, llamada) ==
    /\ Len(hist) = k
    /\ hist' = Append(hist, llamada)
    /\ df' = IF llamada.sal.retorno = <<>> THEN llamada.sal.df
             ELSE llamada.sal.retorno[1]

LlamarDiagnostico(k) ==
    Registrar(k, Llamada("diagnostico_censurados", Ninguna, "", 0, 0, "", "", df,
                         diagnostico_censurados(df)))

LlamarNoAplica(k, cols, reemplazo) ==
    Registrar(k, Llamada("tratar_no_aplica", cols, "", 0, reemplazo, "", "", df,
                         tratar_no_aplica(df, cols, reemplazo)))

LlamarConfidencial(k, cols, metodo, valor_bajo) ==
    Registrar(k, Llamada("tratar_confidencial", cols, metodo, valor_bajo, 0, "", "",
                         df, tratar_confidencial(df, cols, metodo, valor_bajo)))

LlamarCensurados(k, cols, metodo, valor_bajo, reemplazo) ==
    Registrar(k, Llamada("tratar_censurados", cols, metodo, valor_bajo, reemplazo,
                         "", "", df,
                         tratar_censurados(df, cols, metodo, valor_bajo, reemplazo)))

LlamarMarcar(k, cols, sufijo_6, sufijo_8) ==
    Registrar(k, Llamada("marcar_censurados", cols, "", 0, 0, sufijo_6, sufijo_8, df,
                         marcar_censurados(df, cols, sufijo_6, sufijo_8)))

\* ------------------------------------------------------------------ Spec
\* One call of any of the five functions on any table.

Init == df \in Tablas /\ hist = <<>>

Next ==
    \/ LlamarDiagnostico(0)
    \/ \E cols \in Selecciones(df), r \in Reemplazos : LlamarNoAplica(0, cols, r)
    \/ \E cols \in Selecciones(df), m \in Metodos :
          LlamarConfidencial(0, cols, m[1], m[2])
    \/ \E cols \in Selecciones(df), m \in Metodos, r \in Reemplazos :
          LlamarCensurados(0, cols, m[1], m[2], r)
    \/ \E cols \in Selecciones(df), s \in Sufijos : LlamarMarcar(0, cols, s[1], s[2])

Spec == Init /\ [][Next]_vars

\* --------------------------------------------------------------- SpecEstad
\* tratar_confidencial on a numeric column of up to MaxFilasEstad rows.

InitEstad == df \in TablasEstad /\ hist = <<>>

NextEstad ==
    \E cols \in Selecciones(df), m \in Metodos : LlamarConfidencial(0, cols, m[1], m[2])

SpecEstad == InitEstad /\ [][NextEstad]_vars

\* ---------------------------------------------------------------- SpecIdem
\* tratar_no_aplica, then tratar_no_aplica on its result.

NextIdem ==
    \/ \E cols \in Selecciones(df), r \in Reemplazos : LlamarNoAplica(0, cols, r)
    \/ \E cols \in Selecciones(df), r \in Reemplazos : LlamarNoAplica(1, cols, r)

SpecIdem == Init /\ [][NextIdem]_vars

\* --------------------------------------------------------------- SpecOrden
\* marcar_censurados with its defaults, then tratar_censurados on its result.

NextOrden ==
    \/ LlamarMarcar(0, Ninguna, SUFIJO_6_DEFECTO, SUFIJO_8_DEFECTO)
    \/ \E m \in Metodos, r \in Reemplazos : LlamarCensurados(1, Ninguna, m[1], m[2], r)

SpecOrden == Init /\ [][NextOrden]_vars

\* ------------------------------------------------------------------ claims

\* The calls made so far.
Llamadas == {hist[k] : k \in 1..Len(hist)}

\* The table a call returned.
Retorno(L) == L.sal.retorno[1]

\* The calls that returned a table.
ConTabla == {L \in Llamadas : L.sal.retorno # <<>>}

\* The rows of column col holding the number x.
FilasCon(col, x) == {i \in 1..Len(col.vals) : col.tipo = "num" /\ col.vals[i] = x}

\* The names of the columns a call on table t with selection cols works on.
Efectivas(t, cols) ==
    IF cols.dada THEN {cols.lista[i] : i \in 1..Len(cols.lista)}
    ELSE {t.cols[j].nombre : j \in {j \in 1..Len(t.cols) : t.cols[j].tipo = "num"}}

\* Two tables of the same rows and the same columns (names, order, dtype class).
MismaForma(t, u) ==
    /\ t.n = u.n
    /\ Len(t.cols) = Len(u.cols)
    /\ \A j \in 1..Len(t.cols) :
          /\ t.cols[j].nombre = u.cols[j].nombre
          /\ t.cols[j].tipo = u.cols[j].tipo
          /\ Len(t.cols[j].vals) = Len(u.cols[j].vals)

\* C1: tratar_confidencial with a method that is none of nan, cero, mediana,
\* media, valor_bajo raises before modifying anything: it returns no table,
\* prints no report, and the caller's table is the one it passed.
C1_MetodoInvalido ==
    \A L \in Llamadas :
        (L.fn = "tratar_confidencial"
         /\ L.metodo \notin {"nan", "cero", "mediana", "media", "valor_bajo"})
        => /\ L.sal.error
           /\ L.sal.retorno = <<>>
           /\ L.sal.informe = <<>>
           /\ L.sal.df = L.entrada

\* An invalid method on a table that holds a -8 in a selected column.
C1_Testigo ==
    \E L \in Llamadas :
        /\ L.fn = "tratar_confidencial"
        /\ L.metodo = "moda"
        /\ \E c \in Efectivas(L.entrada, L.cols) :
              FilasCon(Columna(L.entrada, c), CONFIDENCIAL) # {}
        /\ L.sal.error

\* C2: an operation that takes an imputation method either succeeds or fails
\* validation before starting: a call that raised ran no stage and printed no
\* report line.
C2_ErrorAntesDeEmpezar ==
    \A L \in Llamadas : L.sal.error => L.sal.informe = <<>>

\* C8: diagnostico_censurados never raises and returns one row for exactly the
\* numeric columns with a -6 or a -8, in column order, whose n_menos_6 and
\* n_menos_8 are the numbers of such cells and whose n_especiales is their
\* sum; a table of no rows gets an empty summary.
C8_Diagnostico ==
    \A L \in Llamadas :
        L.fn = "diagnostico_censurados" =>
        LET t == L.entrada
            r == L.sal.resumen
            censuradas == {j \in 1..Len(t.cols) :
                             /\ t.cols[j].tipo = "num"
                             /\ FilasCon(t.cols[j], NO_APLICA)
                                  \cup FilasCon(t.cols[j], CONFIDENCIAL) # {}}
        IN  /\ ~L.sal.error
            /\ Len(r) = Cardinality(censuradas)
            /\ \A j \in censuradas : \E k \in 1..Len(r) : r[k].col = t.cols[j].nombre
            /\ \A k \in 1..Len(r) :
                  \E j \in censuradas :
                      /\ r[k].col = t.cols[j].nombre
                      /\ r[k].n_menos_6 = Cardinality(FilasCon(t.cols[j], NO_APLICA))
                      /\ r[k].n_menos_8 = Cardinality(FilasCon(t.cols[j], CONFIDENCIAL))
                      /\ r[k].n_especiales = r[k].n_menos_6 + r[k].n_menos_8
                      /\ r[k].n_especiales > 0
            /\ (t.n = 0 => r = <<>>)

\* A summary of two rows with different counts.
C8_Testigo ==
    \E L \in Llamadas :
        /\ L.fn = "diagnostico_censurados"
        /\ Len(L.sal.resumen) = 2
        /\ L.sal.resumen[1].n_menos_6 = 1 /\ L.sal.resumen[1].n_menos_8 = 1
        /\ L.sal.resumen[2].n_especiales = 1

\* C9: tratar_no_aplica replaces every -6 cell of the columns of the effective
\* set with the replacement value and leaves every other cell of the table as
\* it was: -8, other negative numbers, and -6 in columns outside the selection.
C9_NoAplica ==
    \A L \in Llamadas :
        L.fn = "tratar_no_aplica" =>
        /\ L.sal.retorno # <<>>
        /\ MismaForma(L.entrada, Retorno(L))
        /\ \A j \in 1..Len(L.entrada.cols) :
              LET antes == L.entrada.cols[j]
                  despues == Retorno(L).cols[j]
                  tratada == antes.nombre \in Efectivas(L.entrada, L.cols)
              IN  \A i \in 1..Len(antes.vals) :
                      despues.vals[i] =
                          IF tratada /\ i \in FilasCon(antes, NO_APLICA)
                          THEN L.reemplazo
                          ELSE antes.vals[i]

\* A call with a selection that replaces a -6 next to a -8 or a -1 and leaves
\* a -6 in the column it does not select.
C9_Testigo ==
    \E L \in Llamadas :
        /\ L.fn = "tratar_no_aplica"
        /\ L.cols.dada
        /\ L.reemplazo = 0
        /\ Len(L.entrada.cols) = 2
        /\ L.cols.lista = <<L.entrada.cols[1].nombre>>
        /\ L.entrada.cols[1].vals = <<NO_APLICA, CONFIDENCIAL>>
        /\ Retorno(L).cols[1].vals = <<0, CONFIDENCIAL>>
        /\ L.entrada.cols[2].vals = <<(-1) * Escala, NO_APLICA>>
        /\ Retorno(L).cols[2].vals = <<(-1) * Escala, NO_APLICA>>

\* The resolvers.
Resolutores == {"tratar_no_aplica", "tratar_confidencial", "tratar_censurados"}

\* The 0/1 column that is 1 exactly at the rows of set F.
Indicador(n, F) == [i \in 1..n |-> IF i \in F THEN 1 ELSE 0]

\* C3: with any resolver and with marcar_censurados, a column of the input
\* that holds neither -6 nor -8 is in the output with the same values, and no
\* flag column is derived from it.
C3_ColumnaSinCodigos ==
    \A L \in ConTabla :
        L.fn \in Resolutores \cup {"marcar_censurados"} =>
        \A j \in 1..Len(L.entrada.cols) :
            LET col == L.entrada.cols[j]
            IN  FilasCon(col, NO_APLICA) \cup FilasCon(col, CONFIDENCIAL) = {} =>
                /\ EnSeq(col, Retorno(L).cols)
                /\ L.fn = "marcar_censurados" =>
                     \A suf \in {L.sufijo_6, L.sufijo_8} :
                         EnSeq(col.nombre \o suf, Nombres(Retorno(L)))
                         => EnSeq(col.nombre \o suf, Nombres(L.entrada))

C5_Idempotente ==
    (/\ Len(hist) = 2
     /\ hist[1].fn = "tratar_no_aplica" /\ hist[2].fn = "tratar_no_aplica"
     /\ hist[2].cols = hist[1].cols
     /\ hist[2].reemplazo = hist[1].reemplazo)
    => /\ hist[2].entrada = Retorno(hist[1])
       /\ Retorno(hist[2]) = Retorno(hist[1])

\* Two passes with the same arguments, the first of which replaced two cells.
C5_Testigo ==
    /\ Len(hist) = 2
    /\ hist[2].cols = hist[1].cols
    /\ hist[2].reemplazo = hist[1].reemplazo
    /\ hist[1].sal.informe[1].celdas = 2
    /\ Retorno(hist[1]) # hist[1].entrada

\* The rows of column col that enter the statistic: neither code, not NaN,
\* not negative.
Elegibles(col) ==
    {i \in 1..Len(col.vals) :
        /\ col.vals[i] \notin {NO_APLICA, CONFIDENCIAL, NaN}
        /\ col.vals[i] >= 0}

\* The j-th smallest of the cells of col at the rows F.
Kesimo(col, F, j) ==
    CHOOSE v \in {col.vals[i] : i \in F} :
        /\ Cardinality({i \in F : col.vals[i] < v}) < j
        /\ Cardinality({i \in F : col.vals[i] <= v}) >= j

RECURSIVE SumaFilas(_, _)
SumaFilas(col, F) ==
    IF F = {} THEN 0
    ELSE LET i == CHOOSE i \in F : TRUE
         IN  col.vals[i] + SumaFilas(col, F \ {i})

\* C6: tratar_confidencial with mediana or media does not raise and, in every
\* processed column that holds a -8, writes over every -8 cell the median, or
\* the mean to the nearest tenth, of the cells that are neither -6 nor -8 nor
\* negative, and 0 when the column has no such cell.
C6_Estadistico ==
    \A L \in Llamadas :
        (L.fn = "tratar_confidencial" /\ L.metodo \in {"mediana", "media"}) =>
        /\ ~L.sal.error
        /\ L.sal.retorno # <<>>
        /\ \A c \in Efectivas(L.entrada, L.cols) :
              LET col == Columna(L.entrada, c)
                  sal == Columna(Retorno(L), c)
                  F == Elegibles(col)
                  k == Cardinality(F)
                  dif(x) == IF x >= 0 THEN x ELSE 0 - x
              IN  \A i \in FilasCon(col, CONFIDENCIAL) :
                      IF k = 0 THEN sal.vals[i] = 0
                      ELSE IF L.metodo = "mediana"
                      THEN 2 * sal.vals[i] =
                               Kesimo(col, F, (k + 1) \div 2)
                               + Kesimo(col, F, k \div 2 + 1)
                      ELSE 2 * dif(k * sal.vals[i] - SumaFilas(col, F)) <= k

\* media over three eligible cells whose mean, 1/3, has to be rounded: the -8
\* becomes 0.3.
C6_Testigo ==
    \E L \in Llamadas :
        /\ L.fn = "tratar_confidencial"
        /\ L.metodo = "media"
        /\ Columna(L.entrada, "a").vals = <<CONFIDENCIAL, 0, 0, 1 * Escala>>
        /\ Columna(Retorno(L), "a").vals = <<3, 0, 0, 1 * Escala>>

\* The flag columns C7 describes for the columns of lista, in scan order.
RECURSIVE BanderasEsperadas(_, _, _, _)
BanderasEsperadas(t, lista, sufijo_6, sufijo_8) ==
    IF lista = <<>> THEN <<>>
    ELSE LET c == Head(lista)
             F6 == FilasCon(Columna(t, c), NO_APLICA)
             F8 == FilasCon(Columna(t, c), CONFIDENCIAL)
         IN  (IF F6 = {} THEN <<>>
              ELSE <<[nombre |-> c \o sufijo_6, tipo |-> "bool",
                      vals |-> Indicador(t.n, F6)]>>)
             \o (IF F8 = {} THEN <<>>
                 ELSE <<[nombre |-> c \o sufijo_8, tipo |-> "bool",
                         vals |-> Indicador(t.n, F8)]>>)
             \o BanderasEsperadas(t, Tail(lista), sufijo_6, sufijo_8)

\* C7: marcar_censurados returns the original columns followed by one boolean
\* column <name><suffix> per column of the effective set and code present in
\* it, true exactly at the rows where the original column holds the code, in
\* scan order, the -6 flag before the -8 flag of the same column.
C7_Banderas ==
    \A L \in Llamadas :
        L.fn = "marcar_censurados" =>
        /\ L.sal.retorno # <<>>
        /\ Retorno(L).cols =
               L.entrada.cols
               \o BanderasEsperadas(L.entrada,
                       IF L.cols.dada THEN L.cols.lista
                       ELSE [j \in 1..Len(select_dtypes(L.entrada)) |->
                                select_dtypes(L.entrada)[j]],
                       L.sufijo_6, L.sufijo_8)

\* The flags of a marcar_censurados call: (column, code) for every column of
\* the effective set and code present in it, and the name each would get.
Derivadas(L) ==
    {d \in Efectivas(L.entrada, L.cols) \X {NO_APLICA, CONFIDENCIAL} :
        FilasCon(Columna(L.entrada, d[1]), d[2]) # {}}

NombreDerivado(L, d) == d[1] \o (IF d[2] = NO_APLICA THEN L.sufijo_6 ELSE L.sufijo_8)

\* No flag of the call gets the name of a column of the input or of another flag.
SinColision(L) ==
    /\ \A d \in Derivadas(L) : ~EnSeq(NombreDerivado(L, d), Nombres(L.entrada))
    /\ \A d, e \in Derivadas(L) : d # e => NombreDerivado(L, d) # NombreDerivado(L, e)

\* C7 and C3 away from the name collision: where no flag gets a name already
\* taken, marcar_censurados returns what C7 describes, and so every column
\* of the input unchanged.
C7_BanderasSinColision ==
    \A L \in Llamadas :
        (L.fn = "marcar_censurados" /\ SinColision(L)) =>
        Retorno(L).cols =
            L.entrada.cols
            \o BanderasEsperadas(L.entrada,
                    IF L.cols.dada THEN L.cols.lista
                    ELSE [j \in 1..Len(select_dtypes(L.entrada)) |->
                             select_dtypes(L.entrada)[j]],
                    L.sufijo_6, L.sufijo_8)

\* C10: after marcar_censurados with its defaults and then tratar_censurados
\* with a valid method on its result, the boolean columns of the final table
\* are those marcar_censurados produced, each the flag of a numeric column of
\* the original table: true exactly at the rows where that column held the code.
C10_BanderasIntactas ==
    (/\ Len(hist) = 2
     /\ hist[1].fn = "marcar_censurados" /\ ~hist[1].cols.dada
     /\ hist[1].sufijo_6 = "_flag_na" /\ hist[1].sufijo_8 = "_flag_conf"
     /\ hist[2].fn = "tratar_censurados" /\ ~hist[2].cols.dada
     /\ ~hist[2].sal.error)
    => LET orig == hist[1].entrada
           marc == Retorno(hist[1])
           fin == Retorno(hist[2])
           Bool(x) == {x.cols[j] : j \in {j \in 1..Len(x.cols) : x.cols[j].tipo = "bool"}}
       IN  /\ hist[2].entrada = marc
           /\ Bool(fin) = Bool(marc)
           /\ \A b \in Bool(fin) :
                 \E j \in 1..Len(orig.cols) :
                     /\ orig.cols[j].tipo = "num"
                     /\ \/ /\ b.nombre = orig.cols[j].nombre \o "_flag_na"
                           /\ FilasCon(orig.cols[j], NO_APLICA) # {}
                           /\ b.vals = Indicador(orig.n, FilasCon(orig.cols[j], NO_APLICA))
                        \/ /\ b.nombre = orig.cols[j].nombre \o "_flag_conf"
                           /\ FilasCon(orig.cols[j], CONFIDENCIAL) # {}
                           /\ b.vals = Indicador(orig.n,
                                                 FilasCon(orig.cols[j], CONFIDENCIAL))

\* Both flags of a column that held both codes, still in place after the
\* treatment has replaced the codes.
C10_Testigo ==
    /\ Len(hist) = 2
    /\ hist[2].fn = "tratar_censurados"
    /\ hist[2].metodo = "cero"
    /\ Nombres(hist[1].entrada) = <<"a">>
    /\ Nombres(Retorno(hist[2])) = <<"a", "a_flag_na", "a_flag_conf">>
    /\ Columna(hist[1].entrada, "a").vals = <<NO_APLICA, CONFIDENCIAL>>
    /\ Columna(Retorno(hist[2]), "a").vals = <<0, 0>>
    /\ EnSeq([nombre |-> "a_flag_conf", tipo |-> "bool", vals |-> <<0, 1>>],
             Retorno(hist[2]).cols)
    /\ Columna(Retorno(hist[2]), "a_flag_na").vals = <<1, 0>>

====
